---- MODULE Spec2Model ----
(***************************************************************************)
(* Model of rdp-wasm (src/src/lib.rs, src/src/curve.rs): the Ramer-        *)
(* Douglas-Peucker simplifier decimate_by_tolerance and the binary search  *)
(* decimate_to_count that calibrates its tolerance.                        *)
(*                                                                         *)
(* Number representation.  Samples have small integer coordinates.  Every  *)
(* f64 the two functions compare is either a distance or a tolerance, and  *)
(* is held exactly as a record [nan, neg, p, q] that stands for            *)
(*     (IF neg THEN -1 ELSE 1) * sqrt(p / q)      (q > 0)                  *)
(* or for NaN when nan is TRUE.  The binary-search limits are dyadic       *)
(* multiples <<k, s>> = k / 2^s of max_distance, rounded like floats to a  *)
(* fixed number of significand bits.  Indices are 0-based as               *)
(* in the source; a Curve is held as the sequence of the original indices  *)
(* whose (timestamp, x, y) it stores.                                      *)
(***************************************************************************)
EXTENDS Integers, Sequences, FiniteSets, TLC

\* ------------------------------------------------------------------ bounds

\* Longest input series.
MaxLen == 4

\* The source sets 500 (lib.rs:6) and f64 has a 53-bit significand; the model
\* keeps the order (more iterations than it takes the interval to shrink to
\* neighbouring floats) with small numbers.
MAX_BINARY_SEARCH_ITERATIONS == 7

\* Bits of significand of the binary-search limits.
SignificandBits == 3

\* Longest series of the upper-bound probe (SpecBound).
MaxLenBound == 5

\* Cap on the pops of one decimate_by_tolerance run that the model follows.
PopCap == 2 * MaxLen + 2

\* The sample positions of the inputs.
Points == {<<0, 0>>, <<1, 0>>, <<0, 1>>, <<1, 1>>, <<2, 1>>}

\* The sample positions of the upper-bound probe: the 2 x 3 grid.
GridPoints == (0..1) \X (0..2)

VARIABLES
    op,               \* the entry point called
    timestamps, x, y, \* the three input slices
    tolerance,        \* argument of decimate_by_tolerance
    count,            \* argument of decimate_to_count
    pc,               \* "entry", "loop", "search", "done"
    decimated_curve,  \* decimate_by_tolerance: the result under construction
    stack,            \* decimate_by_tolerance: the work stack
    max_distance,     \* decimate_to_count: max_distance squared
    lower_limit,      \* decimate_to_count: dyadic multiple of max_distance
    upper_limit,      \* decimate_to_count: dyadic multiple of max_distance
    curve,            \* decimate_to_count: the last simplifier output
    iter,             \* decimate_to_count: iterations of the for loop so far
    result,           \* what the call returned
    pops,             \* ghost: ranges popped by the stepwise run
    calls,            \* ghost: the simplifier invocations of decimate_to_count
    reads             \* ghost: TRUE once a sample has been indexed

vars == <<op, timestamps, x, y, tolerance, count, pc, decimated_curve, stack,
          max_distance, lower_limit, upper_limit, curve, iter, result, pops,
          calls, reads>>

\* ------------------------------------------------------------------ numbers

Abs(a) == IF a < 0 THEN -a ELSE a

RECURSIVE Pow(_, _)
Pow(b, e) == IF e = 0 THEN 1 ELSE b * Pow(b, e - 1)

\* sqrt(p / q) as an f64 value.
Root(p, q) == [nan |-> FALSE, neg |-> FALSE, p |-> p, q |-> q]

\* -sqrt(p / q), p > 0.
NegRoot(p, q) == [nan |-> FALSE, neg |-> TRUE, p |-> p, q |-> q]

NaN == [nan |-> TRUE, neg |-> FALSE, p |-> 0, q |-> 1]

\* f64 `a > b`: false when either side is NaN.
FGt(a, b) ==
    /\ ~a.nan
    /\ ~b.nan
    /\ IF a.neg
       THEN b.neg /\ a.p * b.q < b.p * a.q
       ELSE b.neg \/ a.p * b.q > b.p * a.q

\* f64 `a >= b`.
FGe(a, b) ==
    /\ ~a.nan
    /\ ~b.nan
    /\ IF a.neg
       THEN b.neg /\ a.p * b.q <= b.p * a.q
       ELSE b.neg \/ a.p * b.q >= b.p * a.q

\* 0-based indexing of a slice.
At(s, i) == s[i + 1]

\* ------------------------------------------------------------------ DistanceMetrics

\* lib.rs:157-162.  numerator / denominator, exactly: |cross| / sqrt(den2).
\* A zero baseline makes the numerator zero as well, and 0.0 / 0.0 is NaN.
perpendicular_distance(px, py, x1, y1, xn, yn) ==
    LET numerator == Abs((xn - x1) * (py - y1) - (yn - y1) * (px - x1))
        den2 == (xn - x1) * (xn - x1) + (yn - y1) * (yn - y1)
    IN  IF den2 = 0 THEN NaN ELSE Root(numerator * numerator, den2)

\* lib.rs:164-166, squared (sqrt is monotonic, so comparisons are unchanged).
distance2(x1, y1, x2, y2) == (x2 - x1) * (x2 - x1) + (y2 - y1) * (y2 - y1)

\* ------------------------------------------------------------------ PointSeries

\* curve.rs:80-82.
CurveLen(c) == Len(c)

\* The timestamps / x / y vectors a Curve holds (curve.rs:13-17).
CurveTimestamps(c) == [k \in 1..Len(c) |-> At(timestamps, c[k])]
CurveX(c) == [k \in 1..Len(c) |-> At(x, c[k])]
CurveY(c) == [k \in 1..Len(c) |-> At(y, c[k])]

\* curve.rs:74-78, Vec::insert on the three vectors: later entries shift right.
CurveInsert(c, index, i) ==
    SubSeq(c, 1, index) \o <<i>> \o SubSeq(c, index + 1, Len(c))

\* lib.rs:57-63: the 0-based position of the first stored timestamp equal to t.
Position(c, t) ==
    LET hits == {k \in 1..Len(c) : At(timestamps, c[k]) = t}
    IN  (CHOOSE k \in hits : \A j \in hits : k <= j) - 1

\* ------------------------------------------------------------------ ToleranceSimplifier

\* Mutant of LengthsMismatch: `&&` for `||`.
LengthsMismatchBoth == (Len(timestamps) # Len(x)) /\ (Len(timestamps) # Len(y))

\* lib.rs:21.
LengthsMismatch == (Len(timestamps) # Len(x)) \/ (Len(timestamps) # Len(y))

\* Distance of sample i to the chord sample[start] -> sample[end] (lib.rs:36-43, 47).
ChordDistance(i, start, end) ==
    perpendicular_distance(At(x, i), At(y, i), At(x, start), At(y, start),
                           At(x, end), At(y, end))

\* Mutant of ScanReplaces: `>=` for `>`, so the last of equal maxima wins.
ScanReplacesOnTie(d, dmax) == FGe(d, dmax)

\* lib.rs:49.
ScanReplaces(d, dmax) == FGt(d, dmax)

\* lib.rs:46-53: the scan of i in (start + 2)..end, carrying (dmax, dmax_is_at).
RECURSIVE Scan(_, _, _, _, _)
Scan(i, start, end, dmax, dmax_is_at) ==
    IF i >= end
    THEN [dmax |-> dmax, dmax_is_at |-> dmax_is_at]
    ELSE LET d == ChordDistance(i, start, end)
         IN  IF ScanReplaces(d, dmax)
             THEN Scan(i + 1, start, end, d, i)
             ELSE Scan(i + 1, start, end, dmax, dmax_is_at)

\* Mutant of IsSignificant: `>=` for `>`.
IsSignificantOrEqual(dmax, tol) == FGe(dmax, tol)

\* Mutant of IsSignificant: the comparison the wrong way round.
IsSignificantInverted(dmax, tol) == FGt(tol, dmax)

\* lib.rs:55.
IsSignificant(dmax, tol) == FGt(dmax, tol)

\* lib.rs:66-67: the two ranges pushed after a split.
PushRanges(st, start, dmax_is_at, end) ==
    st \o <<<<start, dmax_is_at>>, <<dmax_is_at, end>>>>

\* lib.rs:35-69, one iteration of the while loop on a non-empty stack: pop,
\* scan, and when the maximum exceeds the tolerance insert and push.  x[start + 1]
\* is indexed before anything else; out of bounds it panics.
LoopBody(c, st, tol) ==
    LET start == st[Len(st)][1]
        end == st[Len(st)][2]
        rest == SubSeq(st, 1, Len(st) - 1)
    IN  IF start + 1 >= Len(x)
        THEN [panic |-> TRUE, curve |-> c, stack |-> rest]
        ELSE LET m == Scan(start + 2, start, end,
                           ChordDistance(start + 1, start, end), start + 1)
             IN  IF IsSignificant(m.dmax, tol)
                 THEN [panic |-> FALSE,
                       curve |-> CurveInsert(c, Position(c, At(timestamps, end)),
                                             m.dmax_is_at),
                       stack |-> PushRanges(rest, start, m.dmax_is_at, end)]
                 ELSE [panic |-> FALSE, curve |-> c, stack |-> rest]

\* What a call returns.
NoResult ==
    [kind |-> "None", curve |-> <<>>, err |-> "", last_count |-> 0,
     last_tolerance |-> <<0, 0>>]
Ok(c) == [NoResult EXCEPT !.kind = "Ok", !.curve = c]
Err(e) == [NoResult EXCEPT !.kind = "Err", !.err = e]
Panic == [NoResult EXCEPT !.kind = "Panic"]
Diverged == [NoResult EXCEPT !.kind = "Diverged"]

\* lib.rs:35-71 run to the end: the while loop from (c, st), at most fuel pops.
RECURSIVE RunLoop(_, _, _, _)
RunLoop(c, st, tol, fuel) ==
    IF st = <<>> THEN Ok(c)
    ELSE IF fuel = 0 THEN Diverged
    ELSE LET b == LoopBody(c, st, tol)
         IN  IF b.panic THEN Panic ELSE RunLoop(b.curve, b.stack, tol, fuel - 1)

\* lib.rs:28-32: the result seeded with the first and the last sample.
SeedCurve == <<0, Len(timestamps) - 1>>

\* lib.rs:33.
SeedStack == <<<<0, Len(timestamps) - 1>>>>

\* lib.rs:15-72 as a function of the tolerance, on the inputs of the state.
DecimateByTolerance(tol) ==
    IF LengthsMismatch THEN Err("LengthMismatch")
    ELSE IF Len(timestamps) = 0 THEN Panic
    ELSE RunLoop(SeedCurve, SeedStack, tol, PopCap)

\* ------------------------------------------------------------------ CountCalibrator

\* lib.rs:111.
NotEnoughPoints == Len(timestamps) < count

\* lib.rs:122-128: the largest squared distance between consecutive samples,
\* folded over i in 1..(x.len() - 1) from the distance of samples 0 and 1.
RECURSIVE MaxDistanceFrom(_, _)
MaxDistanceFrom(i, best) ==
    IF i >= Len(x) - 1 THEN best
    ELSE LET d == distance2(At(x, i), At(y, i), At(x, i + 1), At(y, i + 1))
         IN  MaxDistanceFrom(i + 1, IF d > best THEN d ELSE best)

MaxDistance == MaxDistanceFrom(1, distance2(At(x, 0), At(y, 0), At(x, 1), At(y, 1)))

\* A dyadic fraction <<k, s>> = k / 2^s in lowest terms.
RECURSIVE DyNorm(_)
DyNorm(d) ==
    IF d[2] > 0 /\ d[1] % 2 = 0 THEN DyNorm(<<d[1] \div 2, d[2] - 1>>) ELSE d

RECURSIVE BitLen(_)
BitLen(k) == IF k = 0 THEN 0 ELSE 1 + BitLen(k \div 2)

\* f64 rounding of a dyadic fraction of at most 1: the significand keeps
\* SignificandBits bits, round to nearest, ties to even.  The exponent is free
\* (2^-500 is far from the subnormal range).
RoundToSignificand(d) ==
    LET n == DyNorm(d)
        drop == BitLen(n[1]) - SignificandBits
        unit == Pow(2, drop)
        q == n[1] \div unit
        r == n[1] % unit
        up == r * 2 > unit \/ (r * 2 = unit /\ q % 2 = 1)
    IN  IF drop <= 0 THEN n
        ELSE DyNorm(<<IF up THEN q + 1 ELSE q, n[2] - drop>>)

\* lib.rs:137, (upper_limit + lower_limit) / 2.0 on dyadic multiples of
\* max_distance: the sum is rounded, the halving is exact.
Midpoint(hi, lo) ==
    LET s == IF hi[2] > lo[2] THEN hi[2] ELSE lo[2]
    IN  RoundToSignificand(
            <<hi[1] * Pow(2, s - hi[2]) + lo[1] * Pow(2, s - lo[2]), s + 1>>)

\* The f64 a dyadic multiple d of the max_distance whose square is m2 stands for.
Scaled(d, m2) == Root(m2 * d[1] * d[1], Pow(4, d[2]))

\* Mutant of Compare: a series with at least count samples is taken as a hit.
CompareAtLeast(len, cnt) == IF len >= cnt THEN "Equal" ELSE "Less"

\* Mutant of Compare: the Equal arm is missing.
CompareNoEqual(len, cnt) == IF len > cnt THEN "Greater" ELSE "Less"

\* lib.rs:140-144, curve.len().cmp(&count).
Compare(len, cnt) ==
    IF len = cnt THEN "Equal" ELSE IF len > cnt THEN "Greater" ELSE "Less"

\* lib.rs:147-151: the tolerance put in the error message.
ReportedMiddle(hi, lo) == Midpoint(hi, lo)

Exhausted(len, mid) ==
    [NoResult EXCEPT !.kind = "Err", !.err = "BinarySearchExhausted",
                     !.last_count = len, !.last_tolerance = mid]

\* ------------------------------------------------------------------ actions

\* lib.rs:21-33: the length check, then the seeding of result and stack.
\* timestamps[0] panics on an empty input.
CallByTolerance ==
    /\ pc = "entry"
    /\ op = "decimate_by_tolerance"
    /\ IF LengthsMismatch
       THEN /\ result' = Err("LengthMismatch")
            /\ pc' = "done"
            /\ UNCHANGED <<decimated_curve, stack, reads>>
       ELSE IF Len(timestamps) = 0
       THEN /\ result' = Panic
            /\ pc' = "done"
            /\ reads' = TRUE
            /\ UNCHANGED <<decimated_curve, stack>>
       ELSE /\ decimated_curve' = SeedCurve
            /\ stack' = SeedStack
            /\ reads' = TRUE
            /\ pc' = "loop"
            /\ UNCHANGED result
    /\ UNCHANGED <<op, timestamps, x, y, tolerance, count, max_distance,
                   lower_limit, upper_limit, curve, iter, pops, calls>>

\* lib.rs:35-69: one iteration of `while let Some((start, end)) = stack.pop()`.
LoopStep ==
    /\ pc = "loop"
    /\ stack # <<>>
    /\ pops < PopCap
    /\ LET b == LoopBody(decimated_curve, stack, tolerance)
       IN  /\ decimated_curve' = b.curve
           /\ stack' = b.stack
           /\ IF b.panic
              THEN result' = Panic /\ pc' = "done"
              ELSE UNCHANGED <<result, pc>>
    /\ pops' = pops + 1
    /\ UNCHANGED <<op, timestamps, x, y, tolerance, count, max_distance,
                   lower_limit, upper_limit, curve, iter, calls, reads>>

\* lib.rs:35, 71: the stack is empty, Ok(decimated_curve).
LoopReturn ==
    /\ pc = "loop"
    /\ stack = <<>>
    /\ result' = Ok(decimated_curve)
    /\ pc' = "done"
    /\ UNCHANGED <<op, timestamps, x, y, tolerance, count, decimated_curve, stack,
                   max_distance, lower_limit, upper_limit, curve, iter, pops,
                   calls, reads>>

\* lib.rs:111-133: the two checks, max_distance and the search interval.
\* x[0] and x[1] panic on a series of fewer than two samples.
CallToCount ==
    /\ pc = "entry"
    /\ op = "decimate_to_count"
    /\ IF NotEnoughPoints
       THEN /\ result' = Err("InsufficientPoints")
            /\ pc' = "done"
            /\ UNCHANGED <<max_distance, lower_limit, upper_limit, curve, reads>>
       ELSE IF LengthsMismatch
       THEN /\ result' = Err("LengthMismatch")
            /\ pc' = "done"
            /\ UNCHANGED <<max_distance, lower_limit, upper_limit, curve, reads>>
       ELSE IF Len(x) < 2
       THEN /\ result' = Panic
            /\ pc' = "done"
            /\ reads' = TRUE
            /\ UNCHANGED <<max_distance, lower_limit, upper_limit, curve>>
       ELSE /\ max_distance' = MaxDistance
            /\ lower_limit' = <<0, 0>>
            /\ upper_limit' = <<1, 0>>
            /\ curve' = <<>>
            /\ reads' = TRUE
            /\ pc' = "search"
            /\ UNCHANGED result
    /\ UNCHANGED <<op, timestamps, x, y, tolerance, count, decimated_curve, stack,
                   iter, pops, calls>>

\* lib.rs:136-145: one iteration of the for loop.
SearchStep ==
    /\ pc = "search"
    /\ iter < MAX_BINARY_SEARCH_ITERATIONS
    /\ LET middle == Midpoint(upper_limit, lower_limit)
           r == DecimateByTolerance(Scaled(middle, max_distance))
       IN  IF r.kind # "Ok"
           THEN /\ result' = r
                /\ pc' = "done"
                /\ calls' = Append(calls, [tol |-> middle, len |-> 0, ok |-> FALSE])
                /\ UNCHANGED <<curve, lower_limit, upper_limit>>
           ELSE /\ curve' = r.curve
                /\ calls' = Append(calls, [tol |-> middle, len |-> CurveLen(r.curve),
                                           ok |-> TRUE])
                /\ LET o == Compare(CurveLen(r.curve), count)
                   IN  /\ IF o = "Equal"
                          THEN result' = Ok(r.curve) /\ pc' = "done"
                          ELSE UNCHANGED <<result, pc>>
                       /\ lower_limit' = IF o = "Greater" THEN middle ELSE lower_limit
                       /\ upper_limit' = IF o = "Less" THEN middle ELSE upper_limit
    /\ iter' = iter + 1
    /\ UNCHANGED <<op, timestamps, x, y, tolerance, count, decimated_curve, stack,
                   max_distance, pops, reads>>

\* lib.rs:147-151: the loop ran out.
SearchExhausted ==
    /\ pc = "search"
    /\ iter = MAX_BINARY_SEARCH_ITERATIONS
    /\ result' = Exhausted(CurveLen(curve), ReportedMiddle(upper_limit, lower_limit))
    /\ pc' = "done"
    /\ UNCHANGED <<op, timestamps, x, y, tolerance, count, decimated_curve, stack,
                   max_distance, lower_limit, upper_limit, curve, iter, pops,
                   calls, reads>>

\* ------------------------------------------------------------------ inputs

\* The tolerances decimate_by_tolerance is called with: -1, 0, sqrt(1/2), 1, sqrt(2).
Tolerances == {NegRoot(1, 1), Root(0, 1), Root(1, 2), Root(1, 1), Root(2, 1)}

\* Unique ascending timestamps, and the non-unique all-zero ones.
TimestampChoices(n) == {[i \in 1..n |-> i - 1], [i \in 1..n |-> 0]}

\* Equal-length series of at most maxn samples at the positions pts.
Series(pts, maxn) ==
    UNION {{[ts |-> t, xs |-> [i \in 1..n |-> s[i][1]], ys |-> [i \in 1..n |-> s[i][2]]] :
              t \in TimestampChoices(n), s \in [1..n -> pts]} : n \in 0..maxn}

Near(n, maxn) == {m \in {n - 1, n, n + 1} : m >= 0 /\ m <= maxn}

\* Inputs whose three lengths are not all equal.
Misaligned(maxn) ==
    UNION {{[ts |-> [i \in 1..n |-> i - 1], xs |-> [i \in 1..lx |-> 0],
             ys |-> [i \in 1..ly |-> 0]] :
              lx \in Near(n, maxn), ly \in Near(n, maxn)} \ 
           {[ts |-> [i \in 1..n |-> i - 1], xs |-> [i \in 1..n |-> 0],
             ys |-> [i \in 1..n |-> 0]]} : n \in 0..maxn}

Start(s, o, cnt) ==
    /\ timestamps = s.ts
    /\ x = s.xs
    /\ y = s.ys
    /\ op = o
    /\ count = cnt
    /\ pc = "entry"
    /\ decimated_curve = <<>>
    /\ stack = <<>>
    /\ max_distance = 0
    /\ lower_limit = <<0, 0>>
    /\ upper_limit = <<0, 0>>
    /\ curve = <<>>
    /\ iter = 0
    /\ result = NoResult
    /\ pops = 0
    /\ calls = <<>>
    /\ reads = FALSE

Init ==
    \E s \in Series(Points, MaxLen) \cup Misaligned(MaxLen) :
        \/ /\ Start(s, "decimate_by_tolerance", 0)
           /\ tolerance \in Tolerances
        \/ /\ \E cnt \in 0..(Len(s.ts) + 1) : Start(s, "decimate_to_count", cnt)
           /\ tolerance = Root(0, 1)

Next ==
    \/ CallByTolerance
    \/ LoopStep
    \/ LoopReturn
    \/ CallToCount
    \/ SearchStep
    \/ SearchExhausted

Spec == Init /\ [][Next]_vars

\* The upper-bound probe: decimate_by_tolerance called with the upper limit that
\* decimate_to_count computes for the same series (lib.rs:122-131), or twice it.
InitBound ==
    \E s \in Series(GridPoints, MaxLenBound) :
        /\ Len(s.ts) >= 2
        /\ s.ts = [i \in 1..Len(s.ts) |-> i - 1]
        /\ Start(s, "decimate_by_tolerance", 0)
        /\ \E k \in 1..2 : tolerance = Root(k * k * MaxDistance, 1)

NextBound ==
    \/ CallByTolerance
    \/ LoopStep
    \/ LoopReturn

SpecBound == InitBound /\ [][NextBound]_vars

\* ------------------------------------------------------------------ vocabulary of the claims

N == Len(timestamps)

Done == pc = "done"

ByTolerance == op = "decimate_by_tolerance"

ToCount == op = "decimate_to_count"

AllLengthsEqual == Len(timestamps) = Len(x) /\ Len(x) = Len(y)

UniqueTimestamps ==
    \A i, j \in 1..N : i # j => timestamps[i] # timestamps[j]

NonNegative(t) == ~t.nan /\ ~t.neg

\* Input sample i as a (timestamp, x, y) triple.
Sample(i) == <<At(timestamps, i), At(x, i), At(y, i)>>

\* The k-th (1-based) sample a Curve stores.
Stored(c, k) == <<CurveTimestamps(c)[k], CurveX(c)[k], CurveY(c)[k]>>

Samples(c) == {Stored(c, k) : k \in 1..Len(c)}

StrictlyIncreasing(c) == \A k \in 1..(Len(c) - 1) : c[k] < c[k + 1]

\* ------------------------------------------------------------------ C1

\* C1: for an equal-length series of n >= 2 samples and a target count in 2..n,
\* decimate_to_count returns Ok with exactly count samples or an error value, never
\* Ok with another length (and nothing else, such as a panic).
C1_ExactCountOrError ==
    (ToCount /\ Done /\ AllLengthsEqual /\ N >= 2 /\ count \in 2..N)
        => \/ result.kind = "Ok" /\ CurveLen(result.curve) = count
           \/ result.kind = "Err"

\* A search that found 3 of 4 samples after more than one simplifier run.
C1_Witness ==
    /\ ToCount /\ Done /\ AllLengthsEqual /\ UniqueTimestamps
    /\ N = 4 /\ count = 3
    /\ result.kind = "Ok"
    /\ Len(calls) >= 2

\* ------------------------------------------------------------------ C2

\* C2: for a non-empty equal-length series (n >= 1) and a tolerance >= 0,
\* decimate_by_tolerance returns a series whose first sample is input sample 0 and
\* whose last sample is input sample n - 1.  Stated on the unique timestamps the
\* data model assumes.
C2_EndpointsPreserved ==
    (ByTolerance /\ Done /\ AllLengthsEqual /\ N >= 1 /\ UniqueTimestamps
        /\ NonNegative(tolerance))
        => /\ result.kind = "Ok"
           /\ CurveLen(result.curve) >= 1
           /\ Stored(result.curve, 1) = Sample(0)
           /\ Stored(result.curve, CurveLen(result.curve)) = Sample(N - 1)

\* ------------------------------------------------------------------ C3

\* The reference procedure of the claim: the lowest interior index that attains
\* the maximum distance to the chord, kept with both halves when that maximum
\* exceeds the tolerance.
RECURSIVE Keep(_, _, _)
Keep(start, end, tol) ==
    LET interior == (start + 1)..(end - 1)
        D(i) == ChordDistance(i, start, end)
    IN  IF interior = {} THEN {}
        ELSE LET argmax == CHOOSE i \in interior :
                               /\ \A j \in interior : ~FGt(D(j), D(i))
                               /\ \A j \in interior : j < i => FGt(D(i), D(j))
             IN  IF FGt(D(argmax), tol)
                 THEN {argmax} \cup Keep(start, argmax, tol) \cup Keep(argmax, end, tol)
                 ELSE {}

\* C3: for n >= 2 samples with unique timestamps and a tolerance >= 0, the set of
\* samples decimate_by_tolerance returns is the first sample, the last sample and
\* the samples the reference recursion keep(0, n - 1) keeps.
C3_MatchesReference ==
    (ByTolerance /\ Done /\ AllLengthsEqual /\ N >= 2 /\ UniqueTimestamps
        /\ NonNegative(tolerance))
        => /\ result.kind = "Ok"
           /\ Samples(result.curve)
                = {Sample(i) : i \in {0, N - 1} \cup Keep(0, N - 1, tolerance)}

\* A run that kept one of two interior samples: the first split was significant
\* and a range below it was pruned.
C3_Witness ==
    /\ ByTolerance /\ Done /\ AllLengthsEqual /\ UniqueTimestamps
    /\ N = 4
    /\ NonNegative(tolerance)
    /\ result.kind = "Ok"
    /\ CurveLen(result.curve) = 3
    /\ pops = 3

\* ------------------------------------------------------------------ C4

\* C4: for a fixed series and tolerances t1 <= t2, decimate_by_tolerance keeps at
\* most as many samples at t2 as at t1.  The finished run at `tolerance` is
\* compared with the function at every other tolerance; for n >= 2 and tolerances
\* >= 0 both calls return a series.
C4_Monotonic ==
    (ByTolerance /\ Done /\ AllLengthsEqual)
        => \A t \in Tolerances :
              LET other == DecimateByTolerance(t)
              IN  /\ (N >= 2 /\ NonNegative(tolerance) /\ NonNegative(t))
                        => result.kind = "Ok" /\ other.kind = "Ok"
                  /\ (result.kind = "Ok" /\ other.kind = "Ok")
                        => /\ FGe(t, tolerance)
                                => CurveLen(other.curve) <= CurveLen(result.curve)
                           /\ FGe(tolerance, t)
                                => CurveLen(result.curve) <= CurveLen(other.curve)

\* A series whose retained count really drops between two tolerances >= 0.
C4_Witness ==
    /\ ByTolerance /\ Done /\ AllLengthsEqual /\ UniqueTimestamps
    /\ NonNegative(tolerance)
    /\ result.kind = "Ok"
    /\ CurveLen(result.curve) >= 3
    /\ \E t \in Tolerances :
          /\ FGt(t, tolerance)
          /\ DecimateByTolerance(t).kind = "Ok"
          /\ CurveLen(DecimateByTolerance(t).curve) < CurveLen(result.curve)

\* ------------------------------------------------------------------ C5

\* C5: for n >= 2 samples, a tolerance at or above the upper limit that
\* decimate_to_count computes (the largest distance between consecutive samples)
\* prunes every interior sample: the result is the 2-point series {first, last}.
C5_UpperBoundPrunesAll ==
    (ByTolerance /\ Done /\ AllLengthsEqual /\ N >= 2
        /\ FGe(tolerance, Root(MaxDistance, 1)))
        => /\ result.kind = "Ok"
           /\ result.curve = <<0, N - 1>>

\* ------------------------------------------------------------------ C6

\* The simplifier run number k of the search returned exactly count samples.
Hit(k) == calls[k].ok /\ calls[k].len = count

\* The inputs decimate_to_count searches on: both checks pass and the series has
\* the two samples the first distance is taken from.
Searchable == AllLengthsEqual /\ count <= N /\ N >= 2

\* C6: decimate_to_count runs the simplifier at most MAX_BINARY_SEARCH_ITERATIONS
\* times, once per iteration of a loop that counts up to that limit (so one of
\* SearchStep and SearchExhausted is always enabled); no run before the last one returned
\* count samples; and on an input it searches on it ends either Ok with the series
\* of the first run that returned count samples, or, no run having done so, with
\* BinarySearchExhausted after exactly MAX_BINARY_SEARCH_ITERATIONS runs.
C6_BoundedSearch ==
    ToCount =>
        /\ Len(calls) <= MAX_BINARY_SEARCH_ITERATIONS
        /\ iter = Len(calls)
        /\ \A k \in 1..(Len(calls) - 1) : ~Hit(k)
        /\ pc = "search" => \A k \in 1..Len(calls) : ~Hit(k)
        /\ (Done /\ Searchable) =>
              \/ /\ result.kind = "Ok"
                 /\ calls # <<>>
                 /\ Hit(Len(calls))
                 /\ CurveLen(result.curve) = calls[Len(calls)].len
              \/ /\ result.kind = "Err"
                 /\ result.err = "BinarySearchExhausted"
                 /\ Len(calls) = MAX_BINARY_SEARCH_ITERATIONS
                 /\ \A k \in 1..Len(calls) : ~Hit(k)

\* The budget ran out on a series whose retained count jumps over the target.
C6_Witness ==
    /\ ToCount /\ Done /\ Searchable /\ UniqueTimestamps
    /\ N = 4 /\ count = 3
    /\ result.err = "BinarySearchExhausted"
    /\ Len(calls) = MAX_BINARY_SEARCH_ITERATIONS
    /\ \E j, k \in 1..Len(calls) : calls[j].len = 2 /\ calls[k].len = 4

\* ------------------------------------------------------------------ C7

\* C7: when decimate_to_count fails with BinarySearchExhausted, last_count is the
\* output length of the last simplifier run and last_tolerance is the midpoint
\* tolerance that was passed to that same run.  Stated on series with unique
\* timestamps and a target count in 2..n.
C7_ReportIsLastRun ==
    (ToCount /\ Done /\ UniqueTimestamps /\ count \in 2..N
        /\ result.err = "BinarySearchExhausted")
        => /\ calls # <<>>
           /\ result.last_count = calls[Len(calls)].len
           /\ LET reported == Scaled(result.last_tolerance, max_distance)
                  passed == Scaled(calls[Len(calls)].tol, max_distance)
              IN  FGe(reported, passed) /\ FGe(passed, reported)

\* ------------------------------------------------------------------ C8

\* C8: precondition failures come back as error values before any sample is read
\* and before any simplification: decimate_by_tolerance returns LengthMismatch
\* when the three lengths are not all equal; decimate_to_count returns
\* InsufficientPoints when count exceeds the number of timestamps and otherwise
\* LengthMismatch when the lengths are not all equal, with no simplifier run.
C8_PreconditionErrors ==
    /\ (ByTolerance /\ ~AllLengthsEqual)
          => /\ ~reads /\ pops = 0 /\ pc \in {"entry", "done"}
             /\ Done => result = Err("LengthMismatch")
    /\ (ToCount /\ count > N)
          => /\ ~reads /\ calls = <<>> /\ pc \in {"entry", "done"}
             /\ Done => result = Err("InsufficientPoints")
    /\ (ToCount /\ count <= N /\ ~AllLengthsEqual)
          => /\ ~reads /\ calls = <<>> /\ pc \in {"entry", "done"}
             /\ Done => result = Err("LengthMismatch")

\* Only y is misaligned, the count is fine: decimate_to_count has answered.
C8_Witness ==
    /\ ToCount /\ Done
    /\ Len(timestamps) = Len(x) /\ Len(y) # Len(x)
    /\ count <= N
    /\ result = Err("LengthMismatch")

\* ------------------------------------------------------------------ C9

\* C9: for an equal-length series of n >= 2 samples and any tolerance, the loop
\* of decimate_by_tolerance pops at most 2n - 3 ranges, inserts no index twice,
\* never holds more than n samples and ends with an empty stack and a result.
\* Stated on the unique timestamps the data model assumes.
C9_LinearWork ==
    (ByTolerance /\ AllLengthsEqual /\ N >= 2 /\ UniqueTimestamps)
        => /\ pops <= 2 * N - 3
           /\ CurveLen(decimated_curve) <= N
           /\ \A j, k \in 1..Len(decimated_curve) :
                 j # k => decimated_curve[j] # decimated_curve[k]
           /\ Done => stack = <<>> /\ result.kind = "Ok"

\* ------------------------------------------------------------------ C10

\* The range is a pair of neighbours of the result.
AdjacentInResult(r) ==
    \E k \in 1..(Len(decimated_curve) - 1) :
        decimated_curve[k] = r[1] /\ decimated_curve[k + 1] = r[2]

\* C10: with unique timestamps, at every step of the loop the result lists the
\* samples in strictly increasing original-index order without duplicates, and
\* both ends of every range on the stack are neighbours in the result; the
\* returned series is an order-preserving subsequence of the input.
C10_OrderedResult ==
    (ByTolerance /\ AllLengthsEqual /\ UniqueTimestamps /\ pc = "loop")
        => /\ StrictlyIncreasing(decimated_curve)
           /\ \A k \in 1..Len(stack) : AdjacentInResult(stack[k])

====
